---- MODULE Spec2Model ----
(***************************************************************************)
(* Model of locher's draw_pattern (src/src/locher.py): the layout of a     *)
(* DIN 24041 hole pattern on a plate and its rendering as one reusable     *)
(* hole definition plus one <use> reference per hole.                      *)
(*                                                                         *)
(* Lengths given by the caller (sw, sh, wx, wy, px, py, f, e) are whole    *)
(* units.  The code multiplies by 0.5 twice (0.5 * (sw - fw) with          *)
(* fw = px * (hx - 0.5)), so every derived length (fw, fh, sx, sy and the  *)
(* hole coordinates) is held in QUARTER units: the model's value is four   *)
(* times the code's value, which keeps the arithmetic exact.               *)
(***************************************************************************)
EXTENDS Integers, Sequences, FiniteSets

\* ---- bounds of the explored requests ----
MaxWidth == 5
MaxHeight == 4
MaxHole == 2
MaxPartition == 2
MaxBorder == 1
MaxSkip == 1

VARIABLES
    sw, sh,          \* plate width / height
    wx, wy,          \* hole length (x) / hole width (y)
    px, py,          \* partition x / y
    f, e,            \* hole free border x / y
    hole_func,       \* "r", "q", "l" or "le"
    uniform, staggered, corners,
    skip,            \* opt["skip"], re-assigned inside the row loop
    pc,              \* "start", "rows", "done"
    hx, hy,          \* number of holes per axis
    sx, sy,          \* starting point, quarter units
    row,             \* next row of the outer loop
    defs,            \* children of svg.defs
    elements,        \* children of the drawing itself (other than defs)
    group            \* children of the "pattern" group

args == <<sw, sh, wx, wy, px, py, f, e, hole_func, uniform, staggered, corners>>
locals == <<hx, hy, sx, sy>>
vars == <<args, skip, pc, locals, row, defs, elements, group>>

HoleFuncs == {"r", "q", "l", "le"}

\* Python's bool used as an int
B2I(b) == IF b THEN 1 ELSE 0

\* shifted = (uniform and staggered)
shifted == uniform /\ staggered

\* the hole size added instead of subtracted
Clearance_Sum(p, w) == p + w

\* cx = px - wx ; cy = py - wy
Clearance(p, w) == p - w

\* the fallback edge term with its sign lost
PlateEdges_Positive(border, w) == IF border <= 0 THEN 2 * w ELSE 2 * border

\* the border counted once instead of once per side
PlateEdges_OneSide(border, w) == IF border <= 0 THEN -(2 * w) ELSE border

\* ex = -(2 * wx) if f <= 0 else (2 * f)
PlateEdges(border, w) == IF border <= 0 THEN -(2 * w) ELSE 2 * border

\* math.ceil in place of math.floor
HoleCount_Ceil(s, edge, c, p) == -((-(s - edge + c)) \div p)

\* hx = math.floor((sw - ex + cx) / px)     (\div floors, p > 0)
HoleCount(s, edge, c, p) == (s - edge + c) \div p

\* fw = px * (hx - 0.5 * shifted) ; fh = py * hy      (quarter units)
FieldWidth(p, h, sh_) == p * (4 * h - 2 * B2I(sh_))

\* the half partition that moves from the field's edge to the first centre left out
StartPoint_NoHalf(s, field, p) == (4 * s - field) \div 2

\* sx = 0.5 * (sw - fw) + 0.5 * px                    (quarter units)
StartPoint(s, field, p) == (4 * s - field) \div 2 + 2 * p

\* the parity taken with corners instead of (not corners)
Mod_Inverted(r) == B2I(staggered) * (IF (r % 2) = B2I(corners) THEN 0 ELSE 1)

\* mod = staggered * ((row % 2) ^ (not corners))
Mod(r) == B2I(staggered) * (IF (r % 2) = B2I(~corners) THEN 0 ELSE 1)

\* skip = shifted * skip
Skip == B2I(shifted) * skip

\* "shifted or" dropped: only offset rows lose their last hole
Less_NoUniform(mod, sk) == mod + (B2I(mod = 0) * sk)

\* "or mod" dropped: offset rows keep their last hole
Less_NoMod(mod, sk) == B2I(shifted) + (B2I(mod = 0) * sk)

\* less = (shifted or mod) + ((not mod) * skip)
Less(mod, sk) == (IF shifted THEN 1 ELSE mod) + (B2I(mod = 0) * sk)

\* x = sx + (col * px) + (mod * px * 0.5)             (quarter units)
HoleX(col, mod) == sx + 4 * col * px + mod * 2 * px

\* y = sy + (row * py)                                (quarter units)
HoleY(r) == sy + 4 * r * py

\* svg.use(hole, insert=(x, y))
Use(x, y) == [tag |-> "use", href |-> "hole", x |-> x, y |-> y]

\* the column range taken inclusive of its end
RowUses_Inclusive(r) ==
    LET mod == Mod(r)
        sk == Skip
        lo == mod * sk
        n == IF hx - Less(mod, sk) >= lo THEN hx - Less(mod, sk) - lo + 1 ELSE 0
    IN [i \in 1..n |-> Use(HoleX(lo + i - 1, mod), HoleY(r))]

\* for col in range((mod * skip), (hx - less)): group.add(svg.use(hole, insert=(x, y)))
RowUses(r) ==
    LET mod == Mod(r)
        sk == Skip
        lo == mod * sk
        n == IF hx - Less(mod, sk) > lo THEN hx - Less(mod, sk) - lo ELSE 0
    IN [i \in 1..n |-> Use(HoleX(lo + i - 1, mod), HoleY(r))]

\* draw_hole_r / draw_hole_q / draw_hole_l / draw_hole_le called with x = y = 0:
\* the element each one creates (sizes in quarter units, like the coordinates)
HoleElement(fn) ==
    CASE fn = "r"  -> [tag |-> "circle", id |-> "hole", x |-> 0, y |-> 0,
                       w |-> 4 * wx, h |-> 4 * wx, r |-> 2 * wx]
      [] fn = "q"  -> [tag |-> "rect", id |-> "hole", x |-> 0, y |-> 0,
                       w |-> 4 * wx, h |-> 4 * wx, r |-> 0]
      [] fn = "l"  -> [tag |-> "rect", id |-> "hole", x |-> 0, y |-> 0,
                       w |-> 4 * wx, h |-> 4 * wy, r |-> 2 * wy]
      [] fn = "le" -> [tag |-> "rect", id |-> "hole", x |-> 0, y |-> 0,
                       w |-> 4 * wx, h |-> 4 * wy, r |-> 0]

\* what the hole function adds to the drawing itself: only draw_hole_le
\* wraps its element in svg.add(...), which appends it and returns it
HoleFuncAdds(fn) == IF fn = "le" THEN <<HoleElement(fn)>> ELSE <<>>

\* the request of the spec's concrete scenario
Scenario ==
    /\ sw = 100 /\ sh = 100 /\ wx = 5 /\ wy = 5 /\ px = 10 /\ py = 10
    /\ f = 0 /\ e = 0 /\ staggered = FALSE

Init ==
    /\ \/ /\ sw \in 1..MaxWidth /\ sh \in 1..MaxHeight
          /\ wx \in 1..MaxHole /\ wy \in 1..MaxHole
          /\ px \in 1..MaxPartition /\ py \in 1..MaxPartition
          /\ f \in 0..MaxBorder /\ e \in 0..MaxBorder
          /\ staggered \in BOOLEAN
       \/ Scenario
    /\ hole_func \in HoleFuncs
    /\ uniform \in BOOLEAN /\ corners \in BOOLEAN
    /\ skip \in 0..MaxSkip
    /\ pc = "start"
    /\ hx = 0 /\ hy = 0 /\ sx = 0 /\ sy = 0
    /\ row = 0
    /\ defs = <<>> /\ elements = <<>> /\ group = <<>>

\* draw_pattern up to the row loop: counts, starting point, reference hole
Setup ==
    /\ pc = "start"
    /\ LET cx == Clearance(px, wx)
           cy == Clearance(py, wy)
           ex == PlateEdges(f, wx)
           ey == PlateEdges(e, wy)
           nx == HoleCount(sw, ex, cx, px)
           ny == HoleCount(sh, ey, cy, py)
       IN /\ hx' = nx
          /\ hy' = ny
          /\ sx' = StartPoint(sw, FieldWidth(px, nx, shifted), px)
          /\ sy' = StartPoint(sh, FieldWidth(py, ny, FALSE), py)
    /\ elements' = elements \o HoleFuncAdds(hole_func)
    /\ defs' = Append(defs, HoleElement(hole_func))
    /\ pc' = "rows"
    /\ UNCHANGED <<args, skip, row, group>>

\* one pass of "for row in range(0, hy)", its inner loop included
DrawRow ==
    /\ pc = "rows"
    /\ row < hy
    /\ skip' = Skip
    /\ group' = group \o RowUses(row)
    /\ row' = row + 1
    /\ UNCHANGED <<args, pc, locals, defs, elements>>

\* svg.add(group)
AddGroup ==
    /\ pc = "rows"
    /\ row >= hy
    /\ elements' = Append(elements, [tag |-> "g", id |-> "pattern"])
    /\ pc' = "done"
    /\ UNCHANGED <<args, skip, locals, row, defs, group>>

Next == Setup \/ DrawRow \/ AddGroup

\* every request, every hole function
Spec == Init /\ [][Next]_vars

\* The layout (counts, starting point, rows) never reads hole_func: it is only
\* called once, for the reference hole.  The layout properties are explored
\* with the hole function held at draw_hole_r, which leaves room for wider
\* plates; Spec covers all four hole functions.
InitLayout == Init /\ hole_func = "r"

SpecLayout == InitLayout /\ [][Next]_vars

\* ---- observations on the finished drawing ----

\* the indices of the placement references lying in row r
RowIdx(r) == {i \in 1..Len(group) : group[i].y = HoleY(r)}

\* the number of holes placed in row r
RowCount(r) == Cardinality(RowIdx(r))

\* where the holes of row r sit relative to the unshifted column grid sx + col * px
RowOffsets(r) == {(group[i].x - sx) % (4 * px) : i \in RowIdx(r)}

HoleXs == {group[i].x : i \in 1..Len(group)}
MinX == CHOOSE x \in HoleXs : \A z \in HoleXs : x <= z
MaxX == CHOOSE x \in HoleXs : \A z \in HoleXs : x >= z

Max0(n) == IF n > 0 THEN n ELSE 0

\* C1 (as stated): the scenario request computes count_x = count_y = 9 and
\* places exactly 81 holes, 9 rows of 9.
C1_Original ==
    (Scenario /\ pc = "done") =>
        /\ hx = 9 /\ hy = 9
        /\ Len(group) = 81
        /\ \A r \in 0..8 : RowCount(r) = 9

\* C1 (amended): the scenario request computes count_x = count_y = 11 and
\* places exactly 121 holes, 11 rows of 11 (the edge term of a zero border is
\* -2 * hole dimension, so the count is floor((100 + 10 + 5) / 10)).
C1_Scenario ==
    (Scenario /\ pc = "done") =>
        /\ hx = 11 /\ hy = 11
        /\ Len(group) = 121
        /\ \A r \in 0..10 : RowCount(r) = 11

C1_Witness == Scenario /\ pc = "done" /\ Len(group) > 0 /\ row = hy

\* C2: with border_x > 0 and border_y > 0 every placed hole keeps the margin:
\* its left/right edges are at least border_x from the left/right plate edge
\* and its top/bottom edges at least border_y from the top/bottom plate edge.
C2_Margin ==
    (f > 0 /\ e > 0) =>
        \A i \in 1..Len(group) :
            /\ group[i].x - 2 * wx >= 4 * f
            /\ group[i].x + 2 * wx <= 4 * sw - 4 * f
            /\ group[i].y - 2 * wy >= 4 * e
            /\ group[i].y + 2 * wy <= 4 * sh - 4 * e

C2_Witness ==
    /\ f > 0 /\ e > 0 /\ pc = "done" /\ staggered /\ hy >= 2
    /\ RowCount(0) >= 1 /\ RowCount(1) >= 1
    /\ \E i \in 1..Len(group) : group[i].x - 2 * wx = 4 * f

\* C3 (as stated): for every valid request, zero borders included, no placed
\* hole overflows the plate.
C3_Original ==
    \A i \in 1..Len(group) :
        /\ 0 <= group[i].x - 2 * wx
        /\ group[i].x + 2 * wx <= 4 * sw
        /\ 0 <= group[i].y - 2 * wy
        /\ group[i].y + 2 * wy <= 4 * sh

\* C3 (amended): along an axis with a positive border no placed hole overflows
\* the plate; along an axis with a zero border a hole may overflow the plate,
\* by at most one hole dimension on either side.
C3_Overflow ==
    \A i \in 1..Len(group) :
        /\ (IF f > 0 THEN 0 ELSE -(4 * wx)) <= group[i].x - 2 * wx
        /\ group[i].x + 2 * wx <= 4 * sw + (IF f > 0 THEN 0 ELSE 4 * wx)
        /\ (IF e > 0 THEN 0 ELSE -(4 * wy)) <= group[i].y - 2 * wy
        /\ group[i].y + 2 * wy <= 4 * sh + (IF e > 0 THEN 0 ELSE 4 * wy)

C3_Witness ==
    /\ pc = "done" /\ f = 0 /\ e > 0
    /\ \E i \in 1..Len(group) : group[i].x - 2 * wx < 0
    /\ \E i \in 1..Len(group) : group[i].y - 2 * wy = 4 * e

\* C4 (as stated): the number of holes placed is non-negative and never
\* exceeds count_x * count_y, whatever the sign of the counts.
C4_Original ==
    (pc # "start") => (Len(group) >= 0 /\ Len(group) <= hx * hy)

\* C4 (amended): the number of holes placed is non-negative and never exceeds
\* max(count_x, 0) * max(count_y, 0).
C4_HoleBound ==
    (pc # "start") => (Len(group) >= 0 /\ Len(group) <= Max0(hx) * Max0(hy))

C4_Witness ==
    pc = "done" /\ hx >= 2 /\ hy >= 2 /\ Len(group) = hx * hy

\* C5 (as stated): staggered with corners = false leaves row 0 unshifted and
\* shifts row 1 by half a partition; corners = true inverts this.
C5_Original ==
    (pc = "done" /\ staggered) =>
        /\ ~corners => (RowOffsets(0) \subseteq {0} /\ RowOffsets(1) \subseteq {2 * px})
        /\ corners => (RowOffsets(0) \subseteq {2 * px} /\ RowOffsets(1) \subseteq {0})

\* C5 (amended): staggered with corners = false shifts row 0 by exactly
\* 0.5 * partition_x and leaves row 1 unshifted; with corners = true row 0 is
\* unshifted and row 1 is shifted by exactly 0.5 * partition_x.
C5_Parity ==
    (pc = "done" /\ staggered) =>
        /\ ~corners => (RowOffsets(0) \subseteq {2 * px} /\ RowOffsets(1) \subseteq {0})
        /\ corners => (RowOffsets(0) \subseteq {0} /\ RowOffsets(1) \subseteq {2 * px})

C5_Witness ==
    /\ pc = "done" /\ staggered /\ ~corners /\ hy >= 2
    /\ RowOffsets(0) = {2 * px} /\ RowOffsets(1) = {0}

\* C6: with uniform and staggered, whatever corners and skip, all rows of the
\* pattern hold the same number of holes.
C6_UniformRows ==
    (pc = "done" /\ uniform /\ staggered) =>
        \A r1, r2 \in 0..(hy - 1) : RowCount(r1) = RowCount(r2)

C6_Witness ==
    /\ pc = "done" /\ uniform /\ staggered /\ skip > 0 /\ hy >= 2
    /\ RowCount(0) >= 1 /\ RowCount(0) < hx - 1

\* C7 (as stated): staggered and not uniform, whatever count_x is: each shifted
\* row holds exactly one hole fewer than each unshifted row.
C7_Original ==
    (pc = "done" /\ staggered /\ ~uniform) =>
        \A r1, r2 \in 0..(hy - 1) :
            (Mod(r1) = 1 /\ Mod(r2) = 0) => RowCount(r1) = RowCount(r2) - 1

\* C7 (amended): staggered and not uniform, with count_x >= 1: each shifted row
\* holds exactly one hole fewer than each unshifted row.
C7_OneFewer ==
    (pc = "done" /\ staggered /\ ~uniform /\ hx >= 1) =>
        \A r1, r2 \in 0..(hy - 1) :
            (Mod(r1) = 1 /\ Mod(r2) = 0) => RowCount(r1) = RowCount(r2) - 1

C7_Witness ==
    /\ pc = "done" /\ staggered /\ ~uniform /\ hy >= 2 /\ hx >= 2
    /\ RowOffsets(0) = {2 * px} /\ RowCount(0) = RowCount(1) - 1

\* C8 (as stated): plate_width < partition_x gives count_x = 0 and no holes.
C8_Original ==
    (pc = "done" /\ sw < px) => (hx = 0 /\ Len(group) = 0)

\* C8 (amended): whenever border_x > 0 and the plate cannot hold one hole
\* between its margins (plate_width < 2 * border_x + hole_length), count_x is
\* zero or negative, no hole is placed, and the routine runs to its end.
C8_NarrowPlate ==
    (f > 0 /\ sw < 2 * f + wx) =>
        /\ (pc # "start") => hx <= 0
        /\ Len(group) = 0
        /\ (pc # "done") => ENABLED Next

C8_Witness ==
    pc = "done" /\ f > 0 /\ sw < 2 * f + wx /\ hx < 0 /\ hy >= 2 /\ row = hy

\* the hole coordinates of the layout, row by row: what drawing one
\* independent shape per coordinate would show
RECURSIVE CoordsUpTo(_)
CoordsUpTo(n) ==
    IF n <= 0 THEN <<>>
    ELSE CoordsUpTo(n - 1) \o [i \in 1..Len(RowUses(n - 1)) |->
                                 <<RowUses(n - 1)[i].x, RowUses(n - 1)[i].y>>]

\* the hole instances the finished drawing shows: every hole element that is
\* a child of the drawing itself, and every placement reference of the group
VisibleHoles ==
    LET shown == SelectSeq(elements, LAMBDA el : el.id = "hole")
    IN [i \in 1..Len(shown) |-> <<0, 0>>] \o
       [i \in 1..Len(group) |-> <<group[i].x, group[i].y>>]

\* C9: for every shape kind the drawing holds one reusable definition, in defs
\* only, and shows exactly one hole instance per computed coordinate and none
\* elsewhere, as drawing one independent shape per coordinate would.
C9_SharedDefinition ==
    (pc = "done") =>
        /\ Len(defs) = 1
        /\ \A i \in 1..Len(elements) : elements[i].id # "hole"
        /\ VisibleHoles = CoordsUpTo(hy)

====
